---- MODULE Spec2Model ----
(***************************************************************************)
(* Point-accumulation and punishment-escalation engine of pippin-mod.      *)
(*                                                                         *)
(* The state is the relational data the engine reads and writes (tables    *)
(* users, warnings, punishments, punishment_rules, warning_levels), the    *)
(* wall clock, the status of the last HTTP response, the log of the        *)
(* classifier verdicts the engine has acted on, and the requests whose     *)
(* handlers are suspended at an await, together with the Discord clients   *)
(* the bot service has created and the table of prompt templates.  Each    *)
(* Express route and the Discord MessageCreate handler is one action where *)
(* handlers run one at a time; ConcSpec, DeleteSpec, PairSpec, RetrySpec   *)
(* and SetupSpec run handlers statement by statement.                      *)
(* Timestamps and durations are counted in minutes.                        *)
(***************************************************************************)
EXTENDS Integers, Sequences, FiniteSets, TLC

VARIABLES users, warnings, punishments, punishmentRules, warningLevels,
          now, resp, received, procs, base,
          client, clients, promptTemplates

\* the requests in flight and the tables as they were when the first of
\* them began
conc == <<procs, base>>

\* the Discord client the bot service holds, every client it has created,
\* and the table ai_prompt_templates
services == <<client, clients, promptTemplates>>

vars == <<users, warnings, punishments, punishmentRules, warningLevels,
          now, resp, received, procs, base, client, clients, promptTemplates>>

(***************************************************************************)
(* Bounds of the model.                                                    *)
(***************************************************************************)
MaxWarnings == 2
MaxPunishments == 2
MaxRules == 2
MaxNow == 1
MaxTotal == 10
MaxDebt == 1
BotMessages == 5
BotTotal == 11
PolicyWarnings == 3
ConcWarnings == 4
LevelWarnings == 2
LevelMessages == 2
MaxLevelId == 2
LevelDebt == 1
DeleteSetupWarnings == 1
PairSetupWarnings == 2
AgreeWarnings == 4
MaxClients == 4
SetupMessages == 1
MaxTemplates == 8
MaxAttempts == 5
RetryMessages == 3
RetryTotal == 10
ConcSetupWarnings == 2

(***************************************************************************)
(* Inputs.                                                                 *)
(***************************************************************************)
UserIds == {"u1"}
ReviewerIds == {"u1", "system"}
\* the classifier's answer: "none" when no violation is detected, else the
\* level name it returned
Verdicts == {"none", "yellow", "orange", "red", "Red", "purple"}
RuleTypes == {"ban", "mute"}
Thresholds == {5, 10}
Durations == {60}
Reasons == {"appeal"}

NullTime == -1
NullDuration == -1
NullText == ""

\* rows of warning_levels keyed by id, as POST /api/warning-levels inserts
\* them: the configuration yellow = 1, orange = 3, red = 5.
SeedLevels ==
    (1 :> [name |-> "yellow", points |-> 1]) @@
    (2 :> [name |-> "orange", points |-> 3]) @@
    (3 :> [name |-> "red", points |-> 5])

(***************************************************************************)
(* Rows.                                                                   *)
(***************************************************************************)
\* users row as inserted by the handlers: the other columns take their
\* defaults (is_banned false, is_muted false, mute_expires_at null).
NewUser ==
    [totalPoints |-> 0, isBanned |-> FALSE, isMuted |-> FALSE,
     muteExpiresAt |-> NullTime]

NewWarning(u, lid, pts) ==
    [userId |-> u, levelId |-> lid, points |-> pts, messageIgnored |-> FALSE,
     ignoredAt |-> NullTime, ignoredBy |-> NullText, ignoreReason |-> NullText]

\* rule.duration || 60
DurationOr60(d) == IF d = NullDuration \/ d = 0 THEN 60 ELSE d

(***************************************************************************)
(* analyzeMessage: the classifier's answer mapped to a warning level.      *)
(***************************************************************************)
\* the keys of WARNING_CONFIGS
WarningConfigNames == {"yellow", "orange", "red"}

\* String.prototype.toLowerCase on the level names the classifier returns
toLowerCase(name) == IF name = "Red" THEN "red" ELSE name

\* mapAnalysisToWarning(analysis).warningLevel
mapAnalysisToWarning(levelName) ==
    IF levelName = "none" THEN "none"
    ELSE IF toLowerCase(levelName) \notin WarningConfigNames THEN "none"
    ELSE toLowerCase(levelName)

(***************************************************************************)
(* Queries.                                                                *)
(***************************************************************************)
\* Variant of FindLevel: an unknown name falls back to some configured level.
FindLevelOrAny(levels, name) ==
    IF \E id \in DOMAIN levels : levels[id].name = name
    THEN CHOOSE id \in DOMAIN levels : levels[id].name = name
    ELSE IF DOMAIN levels # {} THEN CHOOSE id \in DOMAIN levels : TRUE
    ELSE 0

\* db.query.warningLevels.findFirst({ where: eq(name, ...) }); 0 when absent.
FindLevel(levels, name) ==
    IF \E id \in DOMAIN levels : levels[id].name = name
    THEN CHOOSE id \in DOMAIN levels : levels[id].name = name
    ELSE 0

ActiveRules(rules) == {r \in rules : r.isActive}

MaxThreshold(S) ==
    CHOOSE t \in {r.pointThreshold : r \in S} :
        \A r \in S : r.pointThreshold <= t

\* findMany({ where isActive, orderBy desc(pointThreshold) }): every order
\* the database may return; rows with equal thresholds come in any order.
RECURSIVE DescOrders(_)
DescOrders(S) ==
    IF S = {} THEN {<<>>}
    ELSE UNION {{<<r>> \o t : t \in DescOrders(S \ {r})} :
                r \in {x \in S : x.pointThreshold = MaxThreshold(S)}}

RECURSIVE SumPoints(_, _)
SumPoints(ws, S) ==
    IF S = {} THEN 0
    ELSE LET i == CHOOSE j \in S : TRUE
         IN ws[i].points + SumPoints(ws, S \ {i})

\* warnings of user u with message_ignored = false
LiveWarnings(ws, u) ==
    {i \in 1..Len(ws) : ws[i].userId = u /\ ~ws[i].messageIgnored}

\* Variant of LedgerSum: each warning counts the points its level has now.
LedgerSumByLevel(ws, u) ==
    SumPoints([i \in 1..Len(ws) |->
                  [points |-> warningLevels[ws[i].levelId].points]],
              LiveWarnings(ws, u))

LedgerSum(ws, u) == SumPoints(ws, LiveWarnings(ws, u))

(***************************************************************************)
(* Punishment decisions: the loops over the ordered active rules.          *)
(***************************************************************************)
NoRule ==
    [type |-> "none", pointThreshold |-> 0, duration |-> NullDuration,
     isActive |-> FALSE]

\* POST /api/test/moderate: the rule whose branch runs before `break`.
\* A met mute rule is passed over when the user read earlier is muted.
RECURSIVE ModeratePunishment(_, _, _)
ModeratePunishment(rs, newTotalPoints, user) ==
    IF rs = <<>> THEN NoRule
    ELSE LET rule == Head(rs)
         IN IF newTotalPoints >= rule.pointThreshold /\ rule.type = "ban"
            THEN rule
            ELSE IF newTotalPoints >= rule.pointThreshold
                    /\ rule.type = "mute" /\ ~user.isMuted
            THEN rule
            ELSE ModeratePunishment(Tail(rs), newTotalPoints, user)

\* safeApplyPunishment: true when the platform call for the type succeeds.
safeApplyPunishment(type, platformOk) ==
    IF type = "ban" THEN platformOk
    ELSE IF type = "mute" THEN platformOk
    ELSE FALSE

\* MessageCreate handler: the first met rule whose platform call succeeds;
\* oks[i] is the outcome of the platform call for the i-th rule.
RECURSIVE DiscordPunishment(_, _, _)
DiscordPunishment(rs, oks, newTotalPoints) ==
    IF rs = <<>> THEN NoRule
    ELSE LET rule == Head(rs)
         IN IF newTotalPoints >= rule.pointThreshold
               /\ safeApplyPunishment(rule.type, Head(oks))
            THEN rule
            ELSE DiscordPunishment(Tail(rs), Tail(oks), newTotalPoints)

\* Variant of IgnoreRemovals: any met rule keeps both flags.
RECURSIVE IgnoreRemovalsAnyRule(_, _, _)
IgnoreRemovalsAnyRule(rs, newTotalPoints, acc) ==
    IF rs = <<>> THEN acc
    ELSE IF newTotalPoints >= Head(rs).pointThreshold
    THEN [shouldRemoveBan |-> FALSE, shouldRemoveMute |-> FALSE]
    ELSE IgnoreRemovalsAnyRule(Tail(rs), newTotalPoints, acc)

\* POST /api/warnings/:id/ignore: shouldRemoveBan / shouldRemoveMute.
RECURSIVE IgnoreRemovals(_, _, _)
IgnoreRemovals(rs, newTotalPoints, acc) ==
    IF rs = <<>> THEN acc
    ELSE LET rule == Head(rs)
         IN IF newTotalPoints >= rule.pointThreshold /\ rule.type = "ban"
            THEN [acc EXCEPT !.shouldRemoveBan = FALSE]
            ELSE IF newTotalPoints >= rule.pointThreshold /\ rule.type = "mute"
            THEN [acc EXCEPT !.shouldRemoveMute = FALSE]
            ELSE IgnoreRemovals(Tail(rs), newTotalPoints, acc)

\* Variant of RecalcStatus: a met mute rule ends the loop as well.
RECURSIVE RecalcStatusBreakOnMute(_, _, _, _)
RecalcStatusBreakOnMute(rs, newTotalPoints, t, acc) ==
    IF rs = <<>> THEN acc
    ELSE LET rule == Head(rs)
         IN IF newTotalPoints >= rule.pointThreshold /\ rule.type = "ban"
            THEN [acc EXCEPT !.shouldBeBanned = TRUE]
            ELSE IF newTotalPoints >= rule.pointThreshold /\ rule.type = "mute"
            THEN [acc EXCEPT !.shouldBeMuted = TRUE,
                             !.muteExpiresAt = t + DurationOr60(rule.duration)]
            ELSE RecalcStatusBreakOnMute(Tail(rs), newTotalPoints, t, acc)

\* POST /api/users/:userId/recalculate: shouldBeBanned / shouldBeMuted /
\* muteExpiresAt.  A met ban rule ends the loop, a met mute rule does not.
RECURSIVE RecalcStatus(_, _, _, _)
RecalcStatus(rs, newTotalPoints, t, acc) ==
    IF rs = <<>> THEN acc
    ELSE LET rule == Head(rs)
         IN IF newTotalPoints >= rule.pointThreshold /\ rule.type = "ban"
            THEN [acc EXCEPT !.shouldBeBanned = TRUE]
            ELSE IF newTotalPoints >= rule.pointThreshold /\ rule.type = "mute"
            THEN RecalcStatus(Tail(rs), newTotalPoints, t,
                     [acc EXCEPT !.shouldBeMuted = TRUE,
                                 !.muteExpiresAt = t + DurationOr60(rule.duration)])
            ELSE RecalcStatus(Tail(rs), newTotalPoints, t, acc)

(***************************************************************************)
(* Statements on the tables.                                               *)
(***************************************************************************)
\* db.insert(users).values({ id, username, totalPoints: 0 })
InsertUser(us, u) == [x \in DOMAIN us \cup {u} |-> IF x = u THEN NewUser ELSE us[x]]

\* Variant of SetTotalPoints: the update carries no where clause.
SetTotalPointsOfAll(us, u, total) ==
    [x \in DOMAIN us |-> [us[x] EXCEPT !.totalPoints = total]]

\* db.update(users).set({ totalPoints }).where(eq(users.id, u))
SetTotalPoints(us, u, total) ==
    [x \in DOMAIN us |-> IF x = u THEN [us[x] EXCEPT !.totalPoints = total] ELSE us[x]]

\* Variant of ApplyRuleToUser: a ban replaces the mute.
ApplyRuleReplacingMute(us, u, rule, t) ==
    IF rule.type = "ban"
    THEN [x \in DOMAIN us |->
            IF x = u
            THEN [us[x] EXCEPT !.isBanned = TRUE, !.isMuted = FALSE,
                               !.muteExpiresAt = NullTime]
            ELSE us[x]]
    ELSE IF rule.type = "mute"
    THEN [x \in DOMAIN us |->
            IF x = u
            THEN [us[x] EXCEPT !.isMuted = TRUE,
                               !.muteExpiresAt = t + DurationOr60(rule.duration)]
            ELSE us[x]]
    ELSE us

\* the users update of the rule applied by POST /api/test/moderate
ApplyRuleToUser(us, u, rule, t) ==
    IF rule.type = "ban"
    THEN [x \in DOMAIN us |-> IF x = u THEN [us[x] EXCEPT !.isBanned = TRUE] ELSE us[x]]
    ELSE IF rule.type = "mute"
    THEN [x \in DOMAIN us |->
            IF x = u
            THEN [us[x] EXCEPT !.isMuted = TRUE,
                               !.muteExpiresAt = t + DurationOr60(rule.duration)]
            ELSE us[x]]
    ELSE us

\* db.insert(punishments).values({ userId, type, ... }): the audit row, by
\* its user and type.
PunishmentRow(u, rule) == [userId |-> u, type |-> rule.type]

\* Variant of MarkIgnored: the update clears the points of the rows too.
MarkIgnoredAndCleared(ws, S, by, reason, t) ==
    [i \in 1..Len(ws) |->
        IF i \in S
        THEN [ws[i] EXCEPT !.messageIgnored = TRUE, !.ignoredAt = t,
                           !.ignoredBy = by, !.ignoreReason = reason,
                           !.points = 0]
        ELSE ws[i]]

\* db.update(warnings).set({ messageIgnored: true, ... }) over the rows in S
MarkIgnored(ws, S, by, reason, t) ==
    [i \in 1..Len(ws) |->
        IF i \in S
        THEN [ws[i] EXCEPT !.messageIgnored = TRUE, !.ignoredAt = t,
                           !.ignoredBy = by, !.ignoreReason = reason]
        ELSE ws[i]]

\* warnings.ignored_by references users.id: the update is refused when it
\* touches a row and `by` is not the id of a users row.
IgnoredByAccepted(us, S, by) == S = {} \/ by \in DOMAIN us

(***************************************************************************)
(* The handlers as functions of the tables they read: the tables after the *)
(* handler has run to its response, and the status it answers with.        *)
(* db is [users, warnings, punishments]; rs is the list of active rules    *)
(* as the query returned it; t is Date.now().                              *)
(***************************************************************************)
DB == [users |-> users, warnings |-> warnings, punishments |-> punishments]

EmptyDB == [users |-> <<>>, warnings |-> <<>>, punishments |-> <<>>]

\* the requests the server handles at the same time
ProcIds == {"p1", "p2"}

\* a request: its route and arguments, the await it is suspended at, and
\* the handler's local variables
IdleProc ==
    [route |-> "", pc |-> "idle", u |-> "", verdict |-> "", id |-> 0, by |-> "",
     user |-> NewUser, points |-> 0, newTotalPoints |-> 0, status |-> 0,
     retries |-> 0, attempts |-> 0, levelId |-> 0]

\* POST /api/test/moderate
ModerateResult(db, levels, u, verdict, rs, t) ==
    LET lid == FindLevel(levels, verdict)
        us1 == IF u \in DOMAIN db.users THEN db.users ELSE InsertUser(db.users, u)
        user == us1[u]
        pts == levels[lid].points
        newTotalPoints == user.totalPoints + pts
        rule == ModeratePunishment(rs, newTotalPoints, user)
    IN IF verdict = "none" THEN [db |-> db, status |-> 200]
       ELSE IF lid = 0 THEN [db |-> db, status |-> 500]
       ELSE [db |-> [users |-> ApplyRuleToUser(
                                   SetTotalPoints(us1, u, newTotalPoints),
                                   u, rule, t),
                     warnings |-> Append(db.warnings, NewWarning(u, lid, pts)),
                     punishments |->
                        IF rule.type = "none" THEN db.punishments
                        ELSE Append(db.punishments, PunishmentRow(u, rule))],
             status |-> 200]

\* Variant of MessageResult: the point update is undone when a rule was met
\* and every platform call failed.
MessageResultRollback(db, levels, u, verdict, rs, oks) ==
    LET lid == FindLevel(levels, verdict)
        us1 == IF u \in DOMAIN db.users THEN db.users ELSE InsertUser(db.users, u)
        user == us1[u]
        pts == levels[lid].points
        newTotalPoints == user.totalPoints + pts
        rule == DiscordPunishment(rs, oks, newTotalPoints)
        due == \E i \in 1..Len(rs) : newTotalPoints >= rs[i].pointThreshold
    IN IF verdict = "none" \/ lid = 0 THEN [db |-> db, status |-> 0]
       ELSE [db |-> [users |-> IF due /\ rule.type = "none" THEN us1
                               ELSE SetTotalPoints(us1, u, newTotalPoints),
                     warnings |-> db.warnings,
                     punishments |->
                        IF rule.type = "none" THEN db.punishments
                        ELSE Append(db.punishments, PunishmentRow(u, rule))],
             status |-> 0]

\* client.on(Events.MessageCreate, ...) from the classifier's answer on;
\* oks[i] is the outcome of the platform call for the i-th rule of rs.
MessageResult(db, levels, u, verdict, rs, oks) ==
    LET lid == FindLevel(levels, verdict)
        us1 == IF u \in DOMAIN db.users THEN db.users ELSE InsertUser(db.users, u)
        user == us1[u]
        pts == levels[lid].points
        newTotalPoints == user.totalPoints + pts
        rule == DiscordPunishment(rs, oks, newTotalPoints)
    IN IF verdict = "none" \/ lid = 0 THEN [db |-> db, status |-> 0]
       ELSE [db |-> [users |-> SetTotalPoints(us1, u, newTotalPoints),
                     warnings |-> db.warnings,
                     punishments |->
                        IF rule.type = "none" THEN db.punishments
                        ELSE Append(db.punishments, PunishmentRow(u, rule))],
             status |-> 0]

\* the users row written by the last update of POST /api/warnings/:id/ignore
RemovePunishments(row, user, rem) ==
    IF rem.shouldRemoveBan \/ rem.shouldRemoveMute
    THEN [row EXCEPT
            !.isBanned = IF ~rem.shouldRemoveBan THEN user.isBanned ELSE FALSE,
            !.isMuted = IF ~rem.shouldRemoveMute THEN user.isMuted ELSE FALSE,
            !.muteExpiresAt = IF ~rem.shouldRemoveMute THEN user.muteExpiresAt
                              ELSE NullTime]
    ELSE row

\* POST /api/warnings/:id/ignore
IgnoreResult(db, id, by, reason, rs, t) ==
    IF id \notin 1..Len(db.warnings) THEN [db |-> db, status |-> 404]
    ELSE LET warning == db.warnings[id]
             user == db.users[warning.userId]
             newTotalPoints == user.totalPoints - warning.points
             rem == IgnoreRemovals(rs, newTotalPoints,
                       [shouldRemoveBan |-> user.isBanned,
                        shouldRemoveMute |-> user.isMuted])
             us1 == SetTotalPoints(db.users, warning.userId, newTotalPoints)
         IN IF ~IgnoredByAccepted(db.users, {id}, by)
            THEN [db |-> db, status |-> 500]
            ELSE [db |-> [users |-> [us1 EXCEPT ![warning.userId] =
                                        RemovePunishments(@, user, rem)],
                          warnings |-> MarkIgnored(db.warnings, {id}, by, reason, t),
                          punishments |-> db.punishments],
                  status |-> 200]

\* POST /api/users/:userId/recalculate
RecalculateResult(db, u, rs, t) ==
    IF u \notin DOMAIN db.users THEN [db |-> db, status |-> 404]
    ELSE LET newTotalPoints == LedgerSum(db.warnings, u)
             st == RecalcStatus(rs, newTotalPoints, t,
                      [shouldBeBanned |-> FALSE, shouldBeMuted |-> FALSE,
                       muteExpiresAt |-> NullTime])
         IN [db |-> [users |-> [db.users EXCEPT ![u] =
                                  [totalPoints |-> newTotalPoints,
                                   isBanned |-> st.shouldBeBanned,
                                   isMuted |-> st.shouldBeMuted,
                                   muteExpiresAt |-> IF st.shouldBeMuted
                                                     THEN st.muteExpiresAt
                                                     ELSE NullTime]],
                     warnings |-> db.warnings,
                     punishments |-> db.punishments],
             status |-> 200]

\* Variant of ResetResult: the handler does not look the user up.
ResetResultUnchecked(db, u, t) ==
    LET rows == {i \in 1..Len(db.warnings) : db.warnings[i].userId = u}
    IN IF u \notin DOMAIN db.users THEN [db |-> db, status |-> 200]
       ELSE IF ~IgnoredByAccepted(db.users, rows, "system")
       THEN [db |-> db, status |-> 500]
       ELSE [db |-> [users |-> [db.users EXCEPT ![u] = NewUser],
                     warnings |-> MarkIgnored(db.warnings, rows, "system",
                                     "Reset for testing purposes", t),
                     punishments |-> db.punishments],
             status |-> 200]

\* POST /api/users/:userId/reset-warnings
ResetResult(db, u, t) ==
    LET rows == {i \in 1..Len(db.warnings) : db.warnings[i].userId = u}
    IN IF u \notin DOMAIN db.users THEN [db |-> db, status |-> 404]
       ELSE IF ~IgnoredByAccepted(db.users, rows, "system")
       THEN [db |-> db, status |-> 500]
       ELSE [db |-> [users |-> [db.users EXCEPT ![u] = NewUser],
                     warnings |-> MarkIgnored(db.warnings, rows, "system",
                                     "Reset for testing purposes", t),
                     punishments |-> db.punishments],
             status |-> 200]

(***************************************************************************)
(* Initial state: an empty database with the three configured levels.      *)
(***************************************************************************)
Init ==
    /\ users = <<>>
    /\ warnings = <<>>
    /\ punishments = <<>>
    /\ punishmentRules = {}
    /\ warningLevels = SeedLevels
    /\ now = 0
    /\ resp = [route |-> "", status |-> 0]
    /\ received = <<>>
    /\ procs = [p \in ProcIds |-> IdleProc]
    /\ base = EmptyDB
    /\ client = 0
    /\ clients = <<>>
    /\ promptTemplates = <<>>

(***************************************************************************)
(* Handlers run one at a time: each action is one whole handler.           *)
(***************************************************************************)
\* res.json / res.status: the route that answered and its status
Respond(route, r) ==
    /\ users' = r.db.users
    /\ warnings' = r.db.warnings
    /\ punishments' = r.db.punishments
    /\ resp' = [route |-> route, status |-> r.status]

\* the verdicts acted on: a verdict that names a configured level
Log(u, verdict) ==
    IF FindLevel(warningLevels, verdict) = 0 THEN received
    ELSE Append(received, [userId |-> u, level |-> verdict])

TestModerate(u, verdict) ==
    \E rs \in DescOrders(ActiveRules(punishmentRules)) :
        /\ Respond("moderate",
                   ModerateResult(DB, warningLevels, u,
                                  mapAnalysisToWarning(verdict), rs, now))
        /\ received' = Log(u, mapAnalysisToWarning(verdict))
        /\ UNCHANGED <<punishmentRules, warningLevels, now, services,
                       procs, base>>

MessageCreate(u, verdict, oks) ==
    \E rs \in DescOrders(ActiveRules(punishmentRules)) :
        LET r == MessageResult(DB, warningLevels, u,
                               mapAnalysisToWarning(verdict), rs, oks)
        IN /\ users' = r.db.users
           /\ punishments' = r.db.punishments
           /\ received' = Log(u, mapAnalysisToWarning(verdict))
           /\ UNCHANGED <<warnings, punishmentRules, warningLevels, now, services, resp,
                          procs, base>>

IgnoreWarning(id, by, reason) ==
    \E rs \in DescOrders(ActiveRules(punishmentRules)) :
        /\ Respond("ignore", IgnoreResult(DB, id, by, reason, rs, now))
        /\ UNCHANGED <<punishmentRules, warningLevels, now, services, received,
                       procs, base>>

Recalculate(u) ==
    \E rs \in DescOrders(ActiveRules(punishmentRules)) :
        /\ Respond("recalculate", RecalculateResult(DB, u, rs, now))
        /\ UNCHANGED <<punishmentRules, warningLevels, now, services, received,
                       procs, base>>

ResetWarnings(u) ==
    /\ Respond("reset-warnings", ResetResult(DB, u, now))
    /\ UNCHANGED <<punishmentRules, warningLevels, now, services, received,
                   procs, base>>

\* POST /api/punishment-rules.  A rule is identified by its content: no
\* handler of the engine reads the serial id of a rule.
CreatePunishmentRule(type, pointThreshold, duration) ==
    /\ punishmentRules' = punishmentRules \cup
          {[type |-> type, pointThreshold |-> pointThreshold,
            duration |-> IF type = "mute" THEN duration ELSE NullDuration,
            isActive |-> TRUE]}
    /\ resp' = [route |-> "punishment-rules", status |-> 200]
    /\ UNCHANGED <<users, warnings, punishments, warningLevels, now, services, received,
                   procs, base>>

\* DELETE /api/punishment-rules/:id
DeletePunishmentRule(rule) ==
    /\ punishmentRules' = punishmentRules \ {rule}
    /\ resp' = [route |-> "punishment-rules", status |-> 204]
    /\ UNCHANGED <<users, warnings, punishments, warningLevels, now, services, received,
                   procs, base>>

\* the id the serial column gives the next warning_levels row
NextLevelId(levels) ==
    IF DOMAIN levels = {} THEN 1
    ELSE 1 + CHOOSE i \in DOMAIN levels : \A j \in DOMAIN levels : j <= i

\* warning_levels.name is unique: no other row carries the name
NameIsFree(levels, id, name) ==
    \A j \in DOMAIN levels \ {id} : levels[j].name # name

\* Variant of DeleteLevelAccepted: the table carries no reference.
DeleteLevelUnchecked(ws, id) == TRUE

\* warnings.level_id references warning_levels.id: a level row that a
\* warning references cannot be deleted
DeleteLevelAccepted(ws, id) ==
    \A i \in 1..Len(ws) : ws[i].levelId # id

\* POST /api/warning-levels: any number is accepted as points.  An insert
\* the unique name refuses throws outside any try block: no row, no answer.
CreateWarningLevel(name, points) ==
    /\ IF NameIsFree(warningLevels, 0, name)
       THEN /\ warningLevels' =
                  [i \in DOMAIN warningLevels \cup {NextLevelId(warningLevels)} |->
                      IF i \in DOMAIN warningLevels THEN warningLevels[i]
                      ELSE [name |-> name, points |-> points]]
            /\ resp' = [route |-> "warning-levels", status |-> 200]
       ELSE /\ UNCHANGED warningLevels
            /\ resp' = [route |-> "warning-levels", status |-> 0]
    /\ UNCHANGED <<users, warnings, punishments, punishmentRules, now, services, received,
                   procs, base>>

\* PUT /api/warning-levels/:id
UpdateWarningLevel(id, name, points) ==
    /\ IF id \notin DOMAIN warningLevels
       THEN /\ UNCHANGED warningLevels
            /\ resp' = [route |-> "warning-levels", status |-> 404]
       ELSE IF ~NameIsFree(warningLevels, id, name)
       THEN /\ UNCHANGED warningLevels
            /\ resp' = [route |-> "warning-levels", status |-> 0]
       ELSE /\ warningLevels' = [warningLevels EXCEPT ![id] =
                                    [name |-> name, points |-> points]]
            /\ resp' = [route |-> "warning-levels", status |-> 200]
    /\ UNCHANGED <<users, warnings, punishments, punishmentRules, now, services, received,
                   procs, base>>

\* DELETE /api/warning-levels/:id
DeleteWarningLevel(id) ==
    /\ IF Cardinality({i \in 1..Len(warnings) : warnings[i].levelId = id}) > 0
       THEN /\ UNCHANGED warningLevels
            /\ resp' = [route |-> "warning-levels", status |-> 400]
       ELSE IF ~DeleteLevelAccepted(warnings, id)
       THEN /\ UNCHANGED warningLevels
            /\ resp' = [route |-> "warning-levels", status |-> 500]
       ELSE /\ warningLevels' = [i \in DOMAIN warningLevels \ {id} |->
                                    warningLevels[i]]
            /\ resp' = [route |-> "warning-levels", status |-> 204]
    /\ UNCHANGED <<users, warnings, punishments, punishmentRules, now, services, received,
                   procs, base>>

\* the wall clock advances
Tick ==
    /\ now' = now + 1
    /\ UNCHANGED <<users, warnings, punishments, punishmentRules,
                   warningLevels, resp, received,
                   procs, base, services>>

(***************************************************************************)
(* Spec: the admin API, one request at a time.                             *)
(***************************************************************************)
Bounded ==
    /\ Len(warnings) <= MaxWarnings
    /\ Len(punishments) <= MaxPunishments
    /\ Cardinality(punishmentRules) <= MaxRules
    /\ now <= MaxNow
    /\ \A u \in DOMAIN users :
          /\ users[u].totalPoints <= MaxTotal
          /\ users[u].totalPoints >= -MaxDebt

Next ==
    \/ \E u \in UserIds, v \in Verdicts : TestModerate(u, v) /\ Bounded'
    \/ \E id \in 1..(MaxWarnings + 1), by \in ReviewerIds, reason \in Reasons :
          IgnoreWarning(id, by, reason) /\ Bounded'
    \/ \E u \in UserIds : Recalculate(u) /\ Bounded'
    \/ \E u \in UserIds : ResetWarnings(u) /\ Bounded'
    \/ \E t \in RuleTypes, p \in Thresholds, d \in Durations :
          CreatePunishmentRule(t, p, d) /\ Bounded'
    \/ \E rule \in punishmentRules : DeletePunishmentRule(rule) /\ Bounded'
    \/ Tick /\ Bounded'

Spec == Init /\ [][Next]_vars

(***************************************************************************)
(* BotSpec: the Discord bot and the admin test route record warnings for   *)
(* one member under the policy mute@5 for 60 minutes, ban@10.              *)
(***************************************************************************)
PolicyRules ==
    {[type |-> "mute", pointThreshold |-> 5, duration |-> 60, isActive |-> TRUE],
     [type |-> "ban", pointThreshold |-> 10, duration |-> NullDuration,
      isActive |-> TRUE]}

BotInit ==
    /\ users = <<>>
    /\ warnings = <<>>
    /\ punishments = <<>>
    /\ punishmentRules = PolicyRules
    /\ warningLevels = SeedLevels
    /\ now = 0
    /\ resp = [route |-> "", status |-> 0]
    /\ received = <<>>
    /\ procs = [p \in ProcIds |-> IdleProc]
    /\ base = EmptyDB
    /\ client = 0
    /\ clients = <<>>
    /\ promptTemplates = <<>>

BotBounded ==
    /\ Len(received) <= BotMessages
    /\ now <= MaxNow
    /\ \A u \in DOMAIN users : users[u].totalPoints <= BotTotal

BotNext ==
    \/ \E v \in Verdicts : TestModerate("u1", v) /\ BotBounded'
    \/ \E v \in Verdicts, oks \in [1..Cardinality(PolicyRules) -> BOOLEAN] :
          MessageCreate("u1", v, oks) /\ BotBounded'
    \/ Tick /\ BotBounded'

BotSpec == BotInit /\ [][BotNext]_vars

(***************************************************************************)
(* PolicySpec: the admin API, one request at a time, for one member under  *)
(* the policy mute@5 for 60 minutes, ban@10.                               *)
(***************************************************************************)
PolicyBounded ==
    /\ Len(warnings) <= PolicyWarnings
    /\ now <= MaxNow
    /\ \A u \in DOMAIN users :
          /\ users[u].totalPoints <= BotTotal
          /\ users[u].totalPoints >= -MaxDebt

PolicyNext ==
    \/ \E v \in Verdicts : TestModerate("u1", v) /\ PolicyBounded'
    \/ \E id \in 1..(PolicyWarnings + 1), by \in ReviewerIds, reason \in Reasons :
          IgnoreWarning(id, by, reason) /\ PolicyBounded'
    \/ Recalculate("u1") /\ PolicyBounded'
    \/ ResetWarnings("u1") /\ PolicyBounded'
    \/ Tick /\ PolicyBounded'

PolicySpec == BotInit /\ [][PolicyNext]_vars

(***************************************************************************)
(* LevelSpec: the admin creates, edits and deletes warning levels while    *)
(* warnings are recorded for one member through the test route and the     *)
(* Discord bot under the policy mute@5, ban@10.  The table of levels       *)
(* starts empty.                                                           *)
(***************************************************************************)
LevelNames == {"yellow", "red"}

LevelPoints == {-1, 5}

LevelInit ==
    /\ users = <<>>
    /\ warnings = <<>>
    /\ punishments = <<>>
    /\ punishmentRules = PolicyRules
    /\ warningLevels = <<>>
    /\ now = 0
    /\ resp = [route |-> "", status |-> 0]
    /\ received = <<>>
    /\ procs = [p \in ProcIds |-> IdleProc]
    /\ base = EmptyDB
    /\ client = 0
    /\ clients = <<>>
    /\ promptTemplates = <<>>

LevelBounded ==
    /\ Len(warnings) <= LevelWarnings
    /\ Len(received) <= LevelMessages
    /\ \A id \in DOMAIN warningLevels : id <= MaxLevelId
    /\ \A u \in DOMAIN users :
          /\ users[u].totalPoints <= MaxTotal
          /\ users[u].totalPoints >= -LevelDebt

LevelNext ==
    \/ \E name \in LevelNames, points \in LevelPoints :
          CreateWarningLevel(name, points) /\ LevelBounded'
    \/ \E id \in 1..MaxLevelId, name \in LevelNames, points \in LevelPoints :
          UpdateWarningLevel(id, name, points) /\ LevelBounded'
    \/ \E id \in 1..MaxLevelId : DeleteWarningLevel(id) /\ LevelBounded'
    \/ \E v \in Verdicts : TestModerate("u1", v) /\ LevelBounded'
    \/ \E v \in Verdicts, oks \in [1..Cardinality(PolicyRules) -> BOOLEAN] :
          MessageCreate("u1", v, oks) /\ LevelBounded'

LevelSpec == LevelInit /\ [][LevelNext]_vars

(***************************************************************************)
(* SnapshotSpec: the admin edits the points of the configured levels       *)
(* while warnings are recorded, ignored and recalculated for one member    *)
(* under the policy mute@5, ban@10.                                        *)
(***************************************************************************)
SnapshotPoints == {1, 3}

SnapshotBounded ==
    /\ Len(warnings) <= MaxWarnings
    /\ \A u \in DOMAIN users :
          /\ users[u].totalPoints <= MaxTotal
          /\ users[u].totalPoints >= -MaxDebt

SnapshotNext ==
    \/ \E id \in DOMAIN warningLevels, points \in SnapshotPoints :
          UpdateWarningLevel(id, warningLevels[id].name, points) /\ SnapshotBounded'
    \/ \E v \in Verdicts : TestModerate("u1", v) /\ SnapshotBounded'
    \/ \E id \in 1..MaxWarnings :
          IgnoreWarning(id, "u1", "appeal") /\ SnapshotBounded'
    \/ Recalculate("u1") /\ SnapshotBounded'

SnapshotSpec == BotInit /\ [][SnapshotNext]_vars

(***************************************************************************)
(* ConcSpec: two requests for one member are handled at the same time      *)
(* under the policy mute@5, ban@10.  A handler runs from one await to the  *)
(* next as one step; the handlers hold no transaction and no lock, so the  *)
(* steps of the two requests interleave in any order.  The read of         *)
(* punishment_rules and the insert into punishments touch tables no        *)
(* concurrent step writes or reads, and are taken with the users           *)
(* statement next to them.                                                 *)
(***************************************************************************)
ConcVerdicts == {"yellow", "orange", "red"}

AllIdle == \A p \in ProcIds : procs[p].pc = "idle"

AllDone == \A p \in ProcIds : procs[p].pc = "done"

\* the handler of p moves to the await `pc` with its locals updated
Goto(p, pc, locals) ==
    procs' = [procs EXCEPT ![p] = [f \in DOMAIN IdleProc |->
                 IF f = "pc" THEN pc
                 ELSE IF f \in DOMAIN locals THEN locals[f]
                 ELSE procs[p][f]]]

\* res.json / res.status(...).json of the handler of p
Finish(p, status) ==
    /\ Goto(p, "done", [status |-> status])
    /\ resp' = [route |-> procs[p].route, status |-> status]

\* a request arrives; the first arrival fixes the tables the batch began on
Begin(p, route, u, verdict, id, by) ==
    /\ procs[p].pc = "idle"
    /\ procs' = [procs EXCEPT ![p] =
                    [IdleProc EXCEPT !.route = route, !.pc = "start",
                                     !.u = u, !.verdict = verdict,
                                     !.id = id, !.by = by]]
    /\ base' = IF AllIdle THEN DB ELSE base
    /\ received' = IF route = "moderate" THEN Log(u, verdict) ELSE received
    /\ UNCHANGED <<users, warnings, punishments, punishmentRules,
                   warningLevels, now, services, resp>>

BeginModerate(p, u, verdict) == Begin(p, "moderate", u, verdict, 0, "")

BeginIgnore(p, id, by) == Begin(p, "ignore", "", "", id, by)

BeginRecalculate(p, u) == Begin(p, "recalculate", u, "", 0, "")

\* POST /api/test/moderate: warningLevels.findFirst
ModFindLevel(p) ==
    LET me == procs[p]
        lid == FindLevel(warningLevels, me.verdict)
    IN /\ me.route = "moderate" /\ me.pc = "start"
       /\ IF lid = 0
          THEN Finish(p, 500)
          ELSE /\ Goto(p, "findUser", [levelId |-> lid,
                                       points |-> warningLevels[lid].points])
               /\ UNCHANGED resp
       /\ UNCHANGED <<users, warnings, punishments, punishmentRules,
                      warningLevels, now, services, received, base>>

\* users.findFirst
ModFindUser(p) ==
    LET me == procs[p]
    IN /\ me.route = "moderate" /\ me.pc = "findUser"
       /\ IF me.u \in DOMAIN users
          THEN Goto(p, "insertWarning", [user |-> users[me.u]])
          ELSE Goto(p, "insertUser", <<>>)
       /\ UNCHANGED <<users, warnings, punishments, punishmentRules,
                      warningLevels, now, services, resp, received, base>>

\* insert(users): the primary key refuses a second row for the id
ModInsertUser(p) ==
    LET me == procs[p]
    IN /\ me.route = "moderate" /\ me.pc = "insertUser"
       /\ IF me.u \in DOMAIN users
          THEN Finish(p, 500) /\ UNCHANGED users
          ELSE /\ users' = InsertUser(users, me.u)
               /\ Goto(p, "refetchUser", <<>>)
               /\ UNCHANGED resp
       /\ UNCHANGED <<warnings, punishments, punishmentRules,
                      warningLevels, now, services, received, base>>

\* the second users.findFirst
ModRefetchUser(p) ==
    LET me == procs[p]
    IN /\ me.route = "moderate" /\ me.pc = "refetchUser"
       /\ Goto(p, "insertWarning", [user |-> users[me.u]])
       /\ UNCHANGED <<users, warnings, punishments, punishmentRules,
                      warningLevels, now, services, resp, received, base>>

\* warnings.level_id references warning_levels.id: a warning row cannot
\* be inserted for a level row that is gone
InsertWarningAccepted(levels, levelId) == levelId \in DOMAIN levels

\* insert(warnings) with the level row the handler has read
ModInsertWarning(p) ==
    LET me == procs[p]
    IN /\ me.route = "moderate" /\ me.pc = "insertWarning"
       /\ IF InsertWarningAccepted(warningLevels, me.levelId)
          THEN /\ warnings' = Append(warnings,
                                  NewWarning(me.u, me.levelId, me.points))
               /\ Goto(p, "updatePoints", <<>>)
               /\ UNCHANGED resp
          ELSE Finish(p, 500) /\ UNCHANGED warnings
       /\ UNCHANGED <<users, punishments, punishmentRules,
                      warningLevels, now, services, received, base>>

\* update(users).set({ totalPoints: user.totalPoints + warningLevel.points })
ModUpdatePoints(p) ==
    LET me == procs[p]
        newTotalPoints == me.user.totalPoints + me.points
    IN /\ me.route = "moderate" /\ me.pc = "updatePoints"
       /\ users' = SetTotalPoints(users, me.u, newTotalPoints)
       /\ Goto(p, "punish", [newTotalPoints |-> newTotalPoints])
       /\ UNCHANGED <<warnings, punishments, punishmentRules,
                      warningLevels, now, services, resp, received, base>>

\* the loop over the rules, its users update and punishments insert
ModPunish(p) ==
    LET me == procs[p]
    IN /\ me.route = "moderate" /\ me.pc = "punish"
       /\ \E rs \in DescOrders(ActiveRules(punishmentRules)) :
            LET rule == ModeratePunishment(rs, me.newTotalPoints, me.user)
            IN /\ users' = ApplyRuleToUser(users, me.u, rule, now)
               /\ punishments' = IF rule.type = "none" THEN punishments
                                 ELSE Append(punishments, PunishmentRow(me.u, rule))
       /\ Finish(p, 200)
       /\ UNCHANGED <<warnings, punishmentRules, warningLevels, now, services,
                      received, base>>

\* POST /api/warnings/:id/ignore: warnings.findFirst
IgnFindWarning(p) ==
    LET me == procs[p]
    IN /\ me.route = "ignore" /\ me.pc = "start"
       /\ IF me.id \in 1..Len(warnings)
          THEN Goto(p, "findUser", [u |-> warnings[me.id].userId,
                                    points |-> warnings[me.id].points])
               /\ UNCHANGED resp
          ELSE Finish(p, 404)
       /\ UNCHANGED <<users, warnings, punishments, punishmentRules,
                      warningLevels, now, services, received, base>>

\* users.findFirst
IgnFindUser(p) ==
    LET me == procs[p]
    IN /\ me.route = "ignore" /\ me.pc = "findUser"
       /\ Goto(p, "updateWarning", [user |-> users[me.u]])
       /\ UNCHANGED <<users, warnings, punishments, punishmentRules,
                      warningLevels, now, services, resp, received, base>>

\* update(warnings).set({ messageIgnored: true, ... })
IgnUpdateWarning(p) ==
    LET me == procs[p]
    IN /\ me.route = "ignore" /\ me.pc = "updateWarning"
       /\ IF IgnoredByAccepted(users, {me.id}, me.by)
          THEN /\ warnings' = MarkIgnored(warnings, {me.id}, me.by,
                                 "appeal", now)
               /\ Goto(p, "updatePoints", <<>>)
               /\ UNCHANGED resp
          ELSE Finish(p, 500) /\ UNCHANGED warnings
       /\ UNCHANGED <<users, punishments, punishmentRules,
                      warningLevels, now, services, received, base>>

\* update(users).set({ totalPoints: user.totalPoints - warning.points })
IgnUpdatePoints(p) ==
    LET me == procs[p]
        newTotalPoints == me.user.totalPoints - me.points
    IN /\ me.route = "ignore" /\ me.pc = "updatePoints"
       /\ users' = SetTotalPoints(users, me.u, newTotalPoints)
       /\ Goto(p, "removePunishments", [newTotalPoints |-> newTotalPoints])
       /\ UNCHANGED <<warnings, punishments, punishmentRules,
                      warningLevels, now, services, resp, received, base>>

\* the loop over the rules and the users update that removes punishments
IgnRemovePunishments(p) ==
    LET me == procs[p]
    IN /\ me.route = "ignore" /\ me.pc = "removePunishments"
       /\ \E rs \in DescOrders(ActiveRules(punishmentRules)) :
            LET rem == IgnoreRemovals(rs, me.newTotalPoints,
                          [shouldRemoveBan |-> me.user.isBanned,
                           shouldRemoveMute |-> me.user.isMuted])
            IN users' = [users EXCEPT ![me.u] =
                             RemovePunishments(@, me.user, rem)]
       /\ Finish(p, 200)
       /\ UNCHANGED <<warnings, punishments, punishmentRules,
                      warningLevels, now, services, received, base>>

\* POST /api/users/:userId/recalculate: users.findFirst
RecFindUser(p) ==
    LET me == procs[p]
    IN /\ me.route = "recalculate" /\ me.pc = "start"
       /\ IF me.u \in DOMAIN users
          THEN Goto(p, "findWarnings", [user |-> users[me.u]])
               /\ UNCHANGED resp
          ELSE Finish(p, 404)
       /\ UNCHANGED <<users, warnings, punishments, punishmentRules,
                      warningLevels, now, services, received, base>>

\* warnings.findMany of the rows not ignored, and their sum
RecFindWarnings(p) ==
    LET me == procs[p]
    IN /\ me.route = "recalculate" /\ me.pc = "findWarnings"
       /\ Goto(p, "updateUser", [newTotalPoints |-> LedgerSum(warnings, me.u)])
       /\ UNCHANGED <<users, warnings, punishments, punishmentRules,
                      warningLevels, now, services, resp, received, base>>

\* the loop over the rules and update(users).set({ totalPoints, isBanned,
\* isMuted, muteExpiresAt })
RecUpdateUser(p) ==
    LET me == procs[p]
    IN /\ me.route = "recalculate" /\ me.pc = "updateUser"
       /\ \E rs \in DescOrders(ActiveRules(punishmentRules)) :
            LET st == RecalcStatus(rs, me.newTotalPoints, now,
                         [shouldBeBanned |-> FALSE, shouldBeMuted |-> FALSE,
                          muteExpiresAt |-> NullTime])
            IN users' = [users EXCEPT ![me.u] =
                            [totalPoints |-> me.newTotalPoints,
                             isBanned |-> st.shouldBeBanned,
                             isMuted |-> st.shouldBeMuted,
                             muteExpiresAt |-> IF st.shouldBeMuted
                                               THEN st.muteExpiresAt
                                               ELSE NullTime]]
       /\ Finish(p, 200)
       /\ UNCHANGED <<warnings, punishments, punishmentRules,
                      warningLevels, now, services, received, base>>

ConcBounded ==
    /\ Len(warnings) <= ConcWarnings
    /\ \A u \in DOMAIN users : users[u].totalPoints <= BotTotal

\* warnings are recorded one request at a time until the batch begins
ConcSetup ==
    \E v \in ConcVerdicts :
        AllIdle /\ Len(warnings) < ConcSetupWarnings /\ TestModerate("u1", v)

ConcNext ==
    \/ ConcSetup /\ ConcBounded'
    \/ \E p \in ProcIds, v \in ConcVerdicts : BeginModerate(p, "u1", v)
    \/ \E p \in ProcIds, id \in 1..ConcSetupWarnings : BeginIgnore(p, id, "u1")
    \/ \E p \in ProcIds : BeginRecalculate(p, "u1")
    \/ \E p \in ProcIds : ModFindLevel(p)
    \/ \E p \in ProcIds : ModFindUser(p)
    \/ \E p \in ProcIds : ModInsertUser(p)
    \/ \E p \in ProcIds : ModRefetchUser(p)
    \/ \E p \in ProcIds : ModInsertWarning(p) /\ ConcBounded'
    \/ \E p \in ProcIds : ModUpdatePoints(p) /\ ConcBounded'
    \/ \E p \in ProcIds : ModPunish(p)
    \/ \E p \in ProcIds : IgnFindWarning(p)
    \/ \E p \in ProcIds : IgnFindUser(p)
    \/ \E p \in ProcIds : IgnUpdateWarning(p)
    \/ \E p \in ProcIds : IgnUpdatePoints(p)
    \/ \E p \in ProcIds : IgnRemovePunishments(p)
    \/ \E p \in ProcIds : RecFindUser(p)
    \/ \E p \in ProcIds : RecFindWarnings(p)
    \/ \E p \in ProcIds : RecUpdateUser(p)

ConcSpec == BotInit /\ [][ConcNext]_vars

(***************************************************************************)
(* DeleteSpec: a request to delete a warning level and a request of the    *)
(* test route, or two of either, are handled at the same time, statement   *)
(* by statement, after at most DeleteSetupWarnings warnings were recorded  *)
(* one request at a time.                                                  *)
(***************************************************************************)
BeginDeleteLevel(p, id) == Begin(p, "deleteLevel", "", "", id, "")

\* DELETE /api/warning-levels/:id: select count(*) from warnings
DelCountWarnings(p) ==
    LET me == procs[p]
        warningCount ==
            Cardinality({i \in 1..Len(warnings) : warnings[i].levelId = me.id})
    IN /\ me.route = "deleteLevel" /\ me.pc = "start"
       /\ IF warningCount > 0
          THEN Finish(p, 400)
          ELSE Goto(p, "deleteLevel", <<>>) /\ UNCHANGED resp
       /\ UNCHANGED <<users, warnings, punishments, punishmentRules,
                      warningLevels, now, services, received, base>>

\* delete(warningLevels); the catch block answers 500
DelDeleteLevel(p) ==
    LET me == procs[p]
    IN /\ me.route = "deleteLevel" /\ me.pc = "deleteLevel"
       /\ IF DeleteLevelAccepted(warnings, me.id)
          THEN /\ warningLevels' = [i \in DOMAIN warningLevels \ {me.id} |->
                                       warningLevels[i]]
               /\ Finish(p, 204)
          ELSE Finish(p, 500) /\ UNCHANGED warningLevels
       /\ UNCHANGED <<users, warnings, punishments, punishmentRules,
                      now, services, received, base>>

\* warnings are recorded one request at a time until the batch begins
DeleteSetup ==
    \E v \in ConcVerdicts :
        AllIdle /\ Len(warnings) < DeleteSetupWarnings /\ TestModerate("u1", v)

DeleteNext ==
    \/ DeleteSetup
    \/ \E p \in ProcIds, v \in ConcVerdicts : BeginModerate(p, "u1", v)
    \/ \E p \in ProcIds, id \in DOMAIN SeedLevels : BeginDeleteLevel(p, id)
    \/ \E p \in ProcIds : ModFindLevel(p)
    \/ \E p \in ProcIds : ModFindUser(p)
    \/ \E p \in ProcIds : ModInsertUser(p)
    \/ \E p \in ProcIds : ModRefetchUser(p)
    \/ \E p \in ProcIds : ModInsertWarning(p)
    \/ \E p \in ProcIds : ModUpdatePoints(p)
    \/ \E p \in ProcIds : ModPunish(p)
    \/ \E p \in ProcIds : DelCountWarnings(p)
    \/ \E p \in ProcIds : DelDeleteLevel(p)

DeleteSpec == BotInit /\ [][DeleteNext]_vars

(***************************************************************************)
(* PairSpec: two requests are handled at the same time, statement by       *)
(* statement, the first for member u1 and the second for the member whose  *)
(* id is "system"; an ignore request names any warning.  Before the batch  *)
(* at most PairSetupWarnings warnings are recorded one request at a time.  *)
(***************************************************************************)
PairUsers == {"u1", "system"}

PairVerdicts == {"yellow", "red"}

\* the member the requests of p are for
PairUserOf(p) == IF p = "p1" THEN "u1" ELSE "system"

BeginReset(p, u) == Begin(p, "reset", u, "", 0, "")

\* POST /api/users/:userId/reset-warnings: users.findFirst
RstFindUser(p) ==
    LET me == procs[p]
    IN /\ me.route = "reset" /\ me.pc = "start"
       /\ IF me.u \in DOMAIN users
          THEN Goto(p, "updateWarnings", [user |-> users[me.u]])
               /\ UNCHANGED resp
          ELSE Finish(p, 404)
       /\ UNCHANGED <<users, warnings, punishments, punishmentRules,
                      warningLevels, now, services, received, base>>

\* update(warnings).set({ messageIgnored: true, ..., ignoredBy: "system" })
\* .where(eq(warnings.userId, userId)); the catch block answers 500
RstUpdateWarnings(p) ==
    LET me == procs[p]
        rows == {i \in 1..Len(warnings) : warnings[i].userId = me.u}
    IN /\ me.route = "reset" /\ me.pc = "updateWarnings"
       /\ IF IgnoredByAccepted(users, rows, "system")
          THEN /\ warnings' = MarkIgnored(warnings, rows, "system",
                                 "Reset for testing purposes", now)
               /\ Goto(p, "updateUser", <<>>)
               /\ UNCHANGED resp
          ELSE Finish(p, 500) /\ UNCHANGED warnings
       /\ UNCHANGED <<users, punishments, punishmentRules,
                      warningLevels, now, services, received, base>>

\* update(users).set({ totalPoints: 0, isBanned: false, isMuted: false,
\* muteExpiresAt: null }).where(eq(users.id, userId))
RstUpdateUser(p) ==
    LET me == procs[p]
    IN /\ me.route = "reset" /\ me.pc = "updateUser"
       /\ users' = [x \in DOMAIN users |->
                       IF x = me.u THEN NewUser ELSE users[x]]
       /\ Finish(p, 200)
       /\ UNCHANGED <<warnings, punishments, punishmentRules,
                      warningLevels, now, services, received, base>>

\* warnings are recorded one request at a time until the batch begins
PairSetup ==
    \E u \in PairUsers, v \in PairVerdicts :
        AllIdle /\ Len(warnings) < PairSetupWarnings /\ TestModerate(u, v)

PairNext ==
    \/ PairSetup
    \/ \E p \in ProcIds, v \in PairVerdicts : BeginModerate(p, PairUserOf(p), v)
    \/ \E p \in ProcIds, id \in 1..PairSetupWarnings : BeginIgnore(p, id, "u1")
    \/ \E p \in ProcIds : BeginRecalculate(p, PairUserOf(p))
    \/ \E p \in ProcIds : BeginReset(p, PairUserOf(p))
    \/ \E p \in ProcIds : ModFindLevel(p)
    \/ \E p \in ProcIds : ModFindUser(p)
    \/ \E p \in ProcIds : ModInsertUser(p)
    \/ \E p \in ProcIds : ModRefetchUser(p)
    \/ \E p \in ProcIds : ModInsertWarning(p)
    \/ \E p \in ProcIds : ModUpdatePoints(p)
    \/ \E p \in ProcIds : ModPunish(p)
    \/ \E p \in ProcIds : IgnFindWarning(p)
    \/ \E p \in ProcIds : IgnFindUser(p)
    \/ \E p \in ProcIds : IgnUpdateWarning(p)
    \/ \E p \in ProcIds : IgnUpdatePoints(p)
    \/ \E p \in ProcIds : IgnRemovePunishments(p)
    \/ \E p \in ProcIds : RecFindUser(p)
    \/ \E p \in ProcIds : RecFindWarnings(p)
    \/ \E p \in ProcIds : RecUpdateUser(p)
    \/ \E p \in ProcIds : RstFindUser(p)
    \/ \E p \in ProcIds : RstUpdateWarnings(p)
    \/ \E p \in ProcIds : RstUpdateUser(p)

PairSpec == BotInit /\ [][PairNext]_vars

(***************************************************************************)
(* AgreeSpec: warnings are recorded for one member through the test route  *)
(* under the policy mute@5, ban@10, and then the member is recalculated    *)
(* once.                                                                   *)
(***************************************************************************)
AgreeNext ==
    \/ \E v \in Verdicts :
          /\ resp.route # "recalculate"
          /\ Len(warnings) < AgreeWarnings
          /\ TestModerate("u1", v)
    \/ resp.route # "recalculate" /\ Recalculate("u1")

AgreeSpec == BotInit /\ [][AgreeNext]_vars

(***************************************************************************)
(* SetupSpec: requests that call setupDiscordBot (POST /api/settings/      *)
(* discord/status with the bot configured) are handled at the same time,   *)
(* statement by statement, and chat messages of one member are delivered   *)
(* to every client that is logged in, each of which runs its MessageCreate *)
(* handler under the policy mute@5, ban@10.  clients[i] is the state of    *)
(* the i-th Client object created; client is the module variable, 0 for    *)
(* null.  A client whose login resolved after another call had destroyed   *)
(* it is "revived": the library may leave it connected.                    *)
(***************************************************************************)
LoggedIn == {i \in 1..Len(clients) : clients[i] \in {"loggedIn", "revived"}}

\* a request arrives whose handler calls setupDiscordBot
BeginSetup(p) ==
    /\ procs[p].pc \in {"idle", "done"}
    /\ Len(clients) < MaxClients
    /\ procs' = [procs EXCEPT ![p] =
                    [IdleProc EXCEPT !.route = "setup", !.pc = "start"]]
    /\ UNCHANGED <<users, warnings, punishments, punishmentRules,
                   warningLevels, now, services, resp, received, base>>

\* if (client) { await client.destroy() }; with no client the function
\* runs on to client = new Client(...) and the call of client.login
SetupDestroy(p) ==
    LET me == procs[p]
    IN /\ me.route = "setup" /\ me.pc = "start"
       /\ IF client = 0
          THEN /\ clients' = Append(clients, "created")
               /\ client' = Len(clients) + 1
               /\ Goto(p, "login", [id |-> Len(clients) + 1])
          ELSE /\ clients' = [clients EXCEPT ![client] = "destroyed"]
               /\ UNCHANGED client
               /\ Goto(p, "create", <<>>)
       /\ UNCHANGED <<users, warnings, punishments, punishmentRules,
                      warningLevels, now, promptTemplates, resp, received, base>>

\* client = new Client(...), client.on(Events.MessageCreate, ...) and the
\* call of client.login(token)
SetupCreate(p) ==
    LET me == procs[p]
    IN /\ me.route = "setup" /\ me.pc = "create"
       /\ clients' = Append(clients, "created")
       /\ client' = Len(clients) + 1
       /\ Goto(p, "login", [id |-> Len(clients) + 1])
       /\ UNCHANGED <<users, warnings, punishments, punishmentRules,
                      warningLevels, now, promptTemplates, resp, received, base>>

\* await client.login(token) settles: resolved (ok) or rejected.  A login
\* of a client that another call has destroyed meanwhile may do either.
SetupLogin(p, ok) ==
    LET me == procs[p]
    IN /\ me.route = "setup" /\ me.pc = "login"
       /\ IF ok
          THEN /\ clients' = [clients EXCEPT ![me.id] =
                                 IF @ = "destroyed" THEN "revived" ELSE "loggedIn"]
               /\ Finish(p, 200)
          ELSE /\ UNCHANGED clients
               /\ Finish(p, 500)
       /\ UNCHANGED <<users, warnings, punishments, punishmentRules,
                      warningLevels, now, client, promptTemplates, received, base>>

\* the tables after the MessageCreate handlers of k clients have handled
\* the same message one after the other
RECURSIVE HandledBy(_, _, _, _, _, _)
HandledBy(k, db, u, verdict, rs, oks) ==
    IF k = 0 THEN db
    ELSE HandledBy(k - 1, MessageResult(db, warningLevels, u, verdict, rs, oks).db,
                   u, verdict, rs, oks)

\* a chat message of u reaches every client that is logged in
ChatMessage(u, verdict, oks) ==
    \E rs \in DescOrders(ActiveRules(punishmentRules)) :
        LET db == HandledBy(Cardinality(LoggedIn), DB, u,
                            mapAnalysisToWarning(verdict), rs, oks)
        IN /\ LoggedIn # {}
           /\ users' = db.users
           /\ punishments' = db.punishments
           /\ received' = Log(u, mapAnalysisToWarning(verdict))
           /\ UNCHANGED <<warnings, punishmentRules, warningLevels, now,
                          services, resp, procs, base>>

SetupBounded ==
    /\ Len(received) <= SetupMessages
    /\ \A u \in DOMAIN users : users[u].totalPoints <= BotTotal

SetupNext ==
    \/ \E p \in ProcIds : BeginSetup(p)
    \/ \E p \in ProcIds : SetupDestroy(p)
    \/ \E p \in ProcIds : SetupCreate(p)
    \/ \E p \in ProcIds, ok \in BOOLEAN : SetupLogin(p, ok)
    \/ \E v \in ConcVerdicts, oks \in [1..Cardinality(PolicyRules) -> BOOLEAN] :
          ChatMessage("u1", v, oks) /\ SetupBounded'

SetupSpec == BotInit /\ [][SetupNext]_vars

(***************************************************************************)
(* TemplateSpec: the admin creates, edits and activates prompt templates,  *)
(* one request at a time.  promptTemplates[id] is the row with that id.    *)
(***************************************************************************)
\* update(aiPromptTemplates).set({ isActive: false })
\* .where(eq(aiPromptTemplates.isActive, true))
DeactivateAll(ts) == [i \in 1..Len(ts) |-> [ts[i] EXCEPT !.isActive = FALSE]]

\* getActivePromptTemplate: the id of an active template, 0 when the
\* function throws "No active prompt template found"
getActivePromptTemplate(ts) ==
    IF \E i \in 1..Len(ts) : ts[i].isActive
    THEN CHOOSE i \in 1..Len(ts) : ts[i].isActive
    ELSE 0

\* POST /api/prompt-templates
CreatePromptTemplate(isActive) ==
    /\ Len(promptTemplates) < MaxTemplates
    /\ promptTemplates' =
          Append(IF isActive THEN DeactivateAll(promptTemplates)
                 ELSE promptTemplates,
                 [isActive |-> isActive])
    /\ resp' = [route |-> "prompt-templates", status |-> 200]
    /\ UNCHANGED <<users, warnings, punishments, punishmentRules,
                   warningLevels, now, client, clients, received, procs, base>>

\* PUT /api/prompt-templates/:id
UpdatePromptTemplate(id, isActive) ==
    LET ts == IF isActive THEN DeactivateAll(promptTemplates)
              ELSE promptTemplates
    IN /\ IF id \in 1..Len(ts)
          THEN /\ promptTemplates' = [ts EXCEPT ![id].isActive = isActive]
               /\ resp' = [route |-> "prompt-templates", status |-> 200]
          ELSE /\ promptTemplates' = ts
               /\ resp' = [route |-> "prompt-templates", status |-> 404]
       /\ UNCHANGED <<users, warnings, punishments, punishmentRules,
                      warningLevels, now, client, clients, received, procs, base>>

\* POST /api/prompt-templates/:id/activate
ActivatePromptTemplate(id) ==
    LET ts == DeactivateAll(promptTemplates)
    IN /\ IF id \in 1..Len(ts)
          THEN /\ promptTemplates' = [ts EXCEPT ![id].isActive = TRUE]
               /\ resp' = [route |-> "activate", status |-> 200]
          ELSE /\ promptTemplates' = ts
               /\ resp' = [route |-> "activate", status |-> 404]
       /\ UNCHANGED <<users, warnings, punishments, punishmentRules,
                      warningLevels, now, client, clients, received, procs, base>>

TemplateNext ==
    \/ \E isActive \in BOOLEAN : CreatePromptTemplate(isActive)
    \/ \E id \in 1..(MaxTemplates + 1), isActive \in BOOLEAN :
          UpdatePromptTemplate(id, isActive)
    \/ \E id \in 1..(MaxTemplates + 1) : ActivatePromptTemplate(id)

TemplateSpec == BotInit /\ [][TemplateNext]_vars

(***************************************************************************)
(* RetrySpec: the Discord handler takes one message of a member at a time  *)
(* under the policy mute@5, ban@10; the call of analyzeMessage throws or   *)
(* answers.  attempts counts the calls made for the message.  A step of    *)
(* the handler is taken whenever one is possible: the awaited call and     *)
(* the one-second timer settle.                                            *)
(***************************************************************************)
\* Variant of RetriesAfterFailure: the counter is left as it is.
RetriesKept(retries) == retries

\* retries-- in the catch block
RetriesAfterFailure(retries) == retries - 1

\* a message of u arrives: let analysis = null; let retries = 3
MsgArrive(p, u) ==
    /\ procs[p].pc \in {"idle", "done"}
    /\ procs' = [procs EXCEPT ![p] =
                    [IdleProc EXCEPT !.route = "message", !.pc = "analyze",
                                     !.u = u, !.retries = 3]]
    /\ base' = DB
    /\ UNCHANGED <<users, warnings, punishments, punishmentRules,
                   warningLevels, now, services, resp, received>>

\* await analyzeMessage(...) throws: the message is skipped when no retry
\* is left, else the handler waits before the next attempt
AnalyzeThrows(p) ==
    LET me == procs[p]
        left == RetriesAfterFailure(me.retries)
    IN /\ me.route = "message" /\ me.pc = "analyze"
       /\ me.retries > 0
       /\ me.attempts < MaxAttempts
       /\ Goto(p, IF left = 0 THEN "done" ELSE "backoff",
               [retries |-> left, attempts |-> me.attempts + 1])
       /\ UNCHANGED <<users, warnings, punishments, punishmentRules,
                      warningLevels, now, services, resp, received, base>>

\* await new Promise(resolve => setTimeout(resolve, 1000))
Backoff(p) ==
    /\ procs[p].route = "message" /\ procs[p].pc = "backoff"
    /\ Goto(p, "analyze", <<>>)
    /\ UNCHANGED <<users, warnings, punishments, punishmentRules,
                   warningLevels, now, services, resp, received, base>>

\* await analyzeMessage(...) answers: no violation ends the handler
AnalyzeAnswers(p, verdict) ==
    LET me == procs[p]
        w == mapAnalysisToWarning(verdict)
    IN /\ me.route = "message" /\ me.pc = "analyze"
       /\ me.retries > 0
       /\ me.attempts < MaxAttempts
       /\ Goto(p, IF w = "none" THEN "done" ELSE "process",
               [verdict |-> w, attempts |-> me.attempts + 1])
       /\ UNCHANGED <<users, warnings, punishments, punishmentRules,
                      warningLevels, now, services, resp, received, base>>

\* the punishment processing of the handler
ProcessMessage(p, oks) ==
    LET me == procs[p]
    IN /\ me.route = "message" /\ me.pc = "process"
       /\ \E rs \in DescOrders(ActiveRules(punishmentRules)) :
            LET r == MessageResult(DB, warningLevels, me.u, me.verdict, rs, oks)
            IN /\ users' = r.db.users
               /\ punishments' = r.db.punishments
       /\ received' = Log(me.u, me.verdict)
       /\ Goto(p, "done", <<>>)
       /\ UNCHANGED <<warnings, punishmentRules, warningLevels, now, services, resp, base>>

\* the steps of the handler once a message has arrived
RetryStep ==
    \/ AnalyzeThrows("p1")
    \/ Backoff("p1")
    \/ \E v \in Verdicts : AnalyzeAnswers("p1", v)
    \/ \E oks \in [1..Cardinality(PolicyRules) -> BOOLEAN] : ProcessMessage("p1", oks)

RetryNext ==
    \/ /\ Len(received) < RetryMessages
       /\ \A u \in DOMAIN users : users[u].totalPoints <= RetryTotal
       /\ MsgArrive("p1", "u1")
    \/ AnalyzeThrows("p1")
    \/ Backoff("p1")
    \/ \E v \in Verdicts : AnalyzeAnswers("p1", v)
    \/ \E oks \in [1..Cardinality(PolicyRules) -> BOOLEAN] : ProcessMessage("p1", oks)

RetrySpec == BotInit /\ [][RetryNext]_vars /\ WF_vars(RetryStep)

(***************************************************************************)
(* Claims.                                                                 *)
(***************************************************************************)
\* C1: for every user, totalPoints equals the sum of the points of the
\* user's warnings that are not ignored, after any sequence of handlers
\* run one at a time.
TotalPointsIsLedgerSum ==
    \A u \in DOMAIN users : users[u].totalPoints = LedgerSum(warnings, u)

\* the active rules of a type whose threshold a total meets
MetRules(type, total) ==
    {r \in ActiveRules(punishmentRules) :
        r.type = type /\ r.pointThreshold <= total}

\* C2: an ignore request for a warning that is already ignored is answered
\* with an error and leaves the user's row and the warning's ignore
\* sub-record as they were.
ReIgnoreRejected ==
    [][\A id \in 1..Len(warnings), by \in ReviewerIds, reason \in Reasons :
         (warnings[id].messageIgnored /\ IgnoreWarning(id, by, reason))
            => /\ resp'.status >= 400
               /\ users' = users
               /\ warnings'[id] = warnings[id]]_vars

\* the member's total when the batch of concurrent requests began
BaseTotal(u) ==
    IF u \in DOMAIN base.users THEN base.users[u].totalPoints ELSE 0

\* C3: once two recordings for the same user that ran at the same time have
\* both completed, the user's totalPoints is the total before them plus the
\* points of both warnings.
ConcurrentRecordsKeepBoth ==
    (AllDone /\ \A p \in ProcIds : procs[p].route = "moderate")
        => /\ "u1" \in DOMAIN users
           /\ users["u1"].totalPoints =
                 BaseTotal("u1")
                   + warningLevels[FindLevel(warningLevels, procs["p1"].verdict)].points
                   + warningLevels[FindLevel(warningLevels, procs["p2"].verdict)].points

\* the tables after the handler of a request has run alone on db
RunAlone(db, req, rs) ==
    IF req.route = "moderate"
    THEN ModerateResult(db, warningLevels, req.u, req.verdict, rs, now).db
    ELSE IF req.route = "ignore"
    THEN IgnoreResult(db, req.id, req.by, "appeal", rs, now).db
    ELSE RecalculateResult(db, req.u, rs, now).db

\* the users rows a serial execution of the two requests, in either order,
\* leaves
SerialUsers ==
    {RunAlone(RunAlone(base, procs[o[1]], o[3]), procs[o[2]], o[3]).users :
        o \in {x \in ProcIds \X ProcIds
                       \X DescOrders(ActiveRules(punishmentRules)) :
                  x[1] # x[2]}}

\* an ignore or a recalculate runs at the same time as a recording or as an
\* ignore of another warning
IgnoreOrRecalcInterleaved ==
    \E p \in ProcIds, q \in ProcIds :
        /\ p # q
        /\ procs[p].route \in {"ignore", "recalculate"}
        /\ procs[q].route \in {"moderate", "ignore"}
        /\ (procs[p].route = "ignore" /\ procs[q].route = "ignore")
              => procs[p].id # procs[q].id

\* C4: once an ignore or a recalculate and the recording or other ignore it
\* ran at the same time as have all completed, the user's totalPoints is
\* the sum of the points of the user's warnings that are not ignored, and
\* isBanned and isMuted are those some serial order of the same requests
\* leaves.
InterleavedAsSerial ==
    (AllDone /\ IgnoreOrRecalcInterleaved /\ "u1" \in DOMAIN users)
        => /\ users["u1"].totalPoints = LedgerSum(warnings, "u1")
           /\ \E su \in SerialUsers :
                 /\ su["u1"].isBanned = users["u1"].isBanned
                 /\ su["u1"].isMuted = users["u1"].isMuted

\* C5: when the admin test route applies a punishment, the rule applied is
\* an active rule with the highest threshold the new total meets; and when
\* that highest rule is a ban the user is banned.
HighestRuleOnly ==
    [][\A u \in UserIds, v \in Verdicts :
         (TestModerate(u, v) /\ Len(warnings') = Len(warnings) + 1)
            => LET total == users'[u].totalPoints
                   met == MetRules("ban", total) \cup MetRules("mute", total)
                   top == {r \in met : r.pointThreshold = MaxThreshold(met)}
               IN /\ Len(punishments') = Len(punishments) + 1
                       => \E r \in top :
                             r.type = punishments'[Len(punishments')].type
                  /\ (top # {} /\ \A r \in top : r.type = "ban")
                       => /\ users'[u].isBanned
                          /\ Len(punishments') = Len(punishments) + 1]_vars

\* C6: under levels yellow=1, orange=3, red=5 and the policy mute@5 for 60
\* minutes, ban@10, a fresh user who receives yellow, yellow, yellow, red,
\* orange is at total 3 unpunished, then at total 8 muted until now+60 with
\* one mute row, then at total 11 banned and still muted with one ban row.
ScenarioYellowRedOrange ==
    [][LET lv == [i \in 1..Len(received') |-> received'[i].level]
           u == users'["u1"]
           rows(type) == {i \in 1..Len(punishments') : punishments'[i].type = type}
       IN /\ lv = <<"yellow", "yellow", "yellow">>
               => u.totalPoints = 3 /\ ~u.isMuted /\ ~u.isBanned
          /\ lv = <<"yellow", "yellow", "yellow", "red">>
               => /\ u.totalPoints = 8
                  /\ u.isMuted
                  /\ ~u.isBanned
                  /\ Cardinality(rows("mute")) = 1
                  /\ received' # received => u.muteExpiresAt = now + 60
          /\ lv = <<"yellow", "yellow", "yellow", "red", "orange">>
               => /\ u.totalPoints = 11
                  /\ u.isBanned
                  /\ u.isMuted
                  /\ Cardinality(rows("ban")) = 1]_vars

\* C7: after an ignore request that succeeds, a user who was banned and
\* whose new total is below the threshold of every active ban rule is no
\* longer banned.
IgnoreLiftsUnjustifiedBan ==
    [][\A id \in 1..Len(warnings), by \in ReviewerIds, reason \in Reasons :
         LET u == warnings[id].userId
         IN (/\ IgnoreWarning(id, by, reason)
             /\ resp'.status = 200
             /\ users[u].isBanned
             /\ MetRules("ban", users'[u].totalPoints) = {})
               => ~users'[u].isBanned]_vars

\* C7 witness: the user banned at 10 points under mute@5, ban@10 has had
\* the second 5-point warning ignored: total 5, no longer banned.
IgnoreLiftsUnjustifiedBanWitness ==
    /\ resp = [route |-> "ignore", status |-> 200]
    /\ punishmentRules = PolicyRules
    /\ Len(warnings) = 2
    /\ warnings[1].points = 5 /\ ~warnings[1].messageIgnored
    /\ warnings[2].points = 5 /\ warnings[2].messageIgnored
    /\ punishments = <<[userId |-> "u1", type |-> "mute"],
                       [userId |-> "u1", type |-> "ban"]>>
    /\ users["u1"].totalPoints = 5
    /\ ~users["u1"].isBanned

\* C8: an ignore request that succeeds keeps isMuted and muteExpiresAt when
\* the user was muted and the new total meets an active mute rule, and
\* keeps isBanned when the user was banned and the new total meets an
\* active ban rule.
IgnoreKeepsJustifiedFlags ==
    [][\A id \in 1..Len(warnings), by \in ReviewerIds, reason \in Reasons :
         LET u == warnings[id].userId
         IN (IgnoreWarning(id, by, reason) /\ resp'.status = 200)
               => /\ (users[u].isMuted
                        /\ MetRules("mute", users'[u].totalPoints) # {})
                       => /\ users'[u].isMuted
                          /\ users'[u].muteExpiresAt = users[u].muteExpiresAt
                  /\ (users[u].isBanned
                        /\ MetRules("ban", users'[u].totalPoints) # {})
                       => users'[u].isBanned]_vars

\* C9: after recalculate on an existing user, isBanned is true exactly when
\* some active ban rule has a threshold at most the sum of the points of
\* the user's warnings that are not ignored.
RecalculateBanIff ==
    [][\A u \in UserIds :
         (Recalculate(u) /\ u \in DOMAIN users)
            => (users'[u].isBanned <=>
                   MetRules("ban", LedgerSum(warnings, u)) # {})]_vars

\* C9 witness: recalculate has answered for a user whose sum meets a ban
\* rule that lies below a mute rule the sum meets too.
RecalculateBanIffWitness ==
    /\ resp = [route |-> "recalculate", status |-> 200]
    /\ "u1" \in DOMAIN users
    /\ users["u1"].isBanned
    /\ \E b \in MetRules("ban", LedgerSum(warnings, "u1")) :
         \E m \in MetRules("mute", LedgerSum(warnings, "u1")) :
            m.pointThreshold > b.pointThreshold

\* C10: after recalculate on an existing user, isMuted is true exactly when
\* some active mute rule has a threshold at most the sum of the points of
\* the user's warnings that are not ignored.
RecalculateMuteIff ==
    [][\A u \in UserIds :
         (Recalculate(u) /\ u \in DOMAIN users)
            => (users'[u].isMuted <=>
                   MetRules("mute", LedgerSum(warnings, u)) # {})]_vars

\* C11: after reset-warnings on an existing user, every warning of the user
\* is ignored, the user's totalPoints is 0, isBanned and isMuted are false,
\* muteExpiresAt is null, and the user has as many warning rows as before.
ResetClearsUser ==
    [][\A u \in UserIds :
         (ResetWarnings(u) /\ u \in DOMAIN users)
            => /\ Len(warnings') = Len(warnings)
               /\ \A i \in 1..Len(warnings') :
                     warnings'[i].userId = u => warnings'[i].messageIgnored
               /\ users'[u].totalPoints = 0
               /\ ~users'[u].isBanned
               /\ ~users'[u].isMuted
               /\ users'[u].muteExpiresAt = NullTime]_vars

\* no configured level carries the name analyzeMessage maps the verdict to
NoLevelFor(v) ==
    \A id \in DOMAIN warningLevels :
        warningLevels[id].name # mapAnalysisToWarning(v)

\* C12: when the level name the classifier returned matches no configured
\* level, the test route and the Discord handler change no users row, no
\* warnings row and no punishments row.
UnknownLevelIsNoOp ==
    [][\A v \in Verdicts :
         (/\ NoLevelFor(v)
          /\ \/ TestModerate("u1", v)
             \/ \E oks \in [1..Cardinality(PolicyRules) -> BOOLEAN] :
                   MessageCreate("u1", v, oks))
            => /\ users' = users
               /\ warnings' = warnings
               /\ punishments' = punishments]_vars

\* C12 witness: the test route has answered 500 for a level that is not
\* configured while another level is, and no user row exists.
UnknownLevelIsNoOpWitness ==
    /\ resp = [route |-> "moderate", status |-> 500]
    /\ DOMAIN warningLevels # {}
    /\ users = <<>>

\* a user's total, 0 for a user that has no row yet
TotalOf(us, u) == IF u \in DOMAIN us THEN us[u].totalPoints ELSE 0

\* C13: for every recording through the test route or the Discord handler,
\* against any level the level routes accepted, the user's total after the
\* handler is at least the total before it.
RecordNeverLowersTotal ==
    [][\A v \in Verdicts :
         (\/ TestModerate("u1", v)
          \/ \E oks \in [1..Cardinality(PolicyRules) -> BOOLEAN] :
                MessageCreate("u1", v, oks))
            => TotalOf(users', "u1") >= TotalOf(users, "u1")]_vars

\* C14: every recording that resolves a configured level, through the test
\* route or the Discord handler, appends exactly one warnings row for the
\* user with the level's points and messageIgnored false, and adds those
\* points to the user's totalPoints.
RecordInsertsOneWarning ==
    [][\A v \in Verdicts :
         (/\ ~NoLevelFor(v)
          /\ \/ TestModerate("u1", v)
             \/ \E oks \in [1..Cardinality(PolicyRules) -> BOOLEAN] :
                   MessageCreate("u1", v, oks))
            => LET lid == FindLevel(warningLevels, mapAnalysisToWarning(v))
                   pts == warningLevels[lid].points
               IN /\ Len(warnings') = Len(warnings) + 1
                  /\ SubSeq(warnings', 1, Len(warnings)) = warnings
                  /\ warnings'[Len(warnings')].userId = "u1"
                  /\ warnings'[Len(warnings')].levelId = lid
                  /\ warnings'[Len(warnings')].points = pts
                  /\ ~warnings'[Len(warnings')].messageIgnored
                  /\ TotalOf(users', "u1") = TotalOf(users, "u1") + pts]_vars

\* the punishments of the row `old` are still in force in the row `new`
KeepsPunishments(old, new) ==
    /\ old.isBanned => new.isBanned
    /\ old.isMuted => new.isMuted
    /\ old.muteExpiresAt # NullTime => new.muteExpiresAt # NullTime

\* C15: whatever the user's row and the rule set, a recording through the
\* test route or the Discord handler leaves isBanned true if it was true,
\* isMuted true if it was true, and does not set muteExpiresAt to null.
RecordKeepsPunishments ==
    \A u \in DOMAIN users, v \in Verdicts :
        \A rs \in DescOrders(ActiveRules(punishmentRules)) :
            /\ KeepsPunishments(users[u],
                  ModerateResult(DB, warningLevels, u, mapAnalysisToWarning(v),
                                 rs, now).db.users[u])
            /\ \A oks \in [1..Len(rs) -> BOOLEAN] :
                  KeepsPunishments(users[u],
                     MessageResult(DB, warningLevels, u, mapAnalysisToWarning(v),
                                   rs, oks).db.users[u])

\* C15 witness: the test route has banned a user who was muted, and the
\* mute and its expiry are still in the row.
RecordKeepsPunishmentsWitness ==
    /\ resp = [route |-> "moderate", status |-> 200]
    /\ punishments = <<[userId |-> "u1", type |-> "mute"],
                       [userId |-> "u1", type |-> "ban"]>>
    /\ users["u1"].isBanned
    /\ users["u1"].isMuted
    /\ users["u1"].muteExpiresAt # NullTime

\* C16: no single request takes a user from a row with isBanned true to a
\* row with isBanned false and isMuted true.
NoBannedToMutedStep ==
    [][\A u \in DOMAIN users :
         ~(/\ users[u].isBanned
           /\ u \in DOMAIN users'
           /\ ~users'[u].isBanned
           /\ users'[u].isMuted)]_vars

\* a platform call made for a rule the total meets has failed: the rule at
\* i is met, its call fails, and so did the call of every met rule before it
PlatformCallFailed(rs, oks, total) ==
    \E i \in 1..Len(rs) :
        /\ total >= rs[i].pointThreshold
        /\ ~oks[i]
        /\ \A j \in 1..(i - 1) : total >= rs[j].pointThreshold => ~oks[j]

\* C17: when a platform ban or timeout call fails while the Discord handler
\* records a warning, the user's totalPoints after the handler is the total
\* before it plus the level's points.
FailedPunishmentKeepsPoints ==
    [][\A v \in Verdicts, oks \in [1..Cardinality(PolicyRules) -> BOOLEAN] :
         LET lid == FindLevel(warningLevels, mapAnalysisToWarning(v))
             total == TotalOf(users, "u1") + warningLevels[lid].points
         IN (/\ ~NoLevelFor(v)
             /\ MessageCreate("u1", v, oks)
             /\ \E rs \in DescOrders(ActiveRules(punishmentRules)) :
                   PlatformCallFailed(rs, oks, total))
               => TotalOf(users', "u1") = total]_vars

\* C17 witness: every recording came through the Discord handler, the
\* total meets the mute rule, and no punishment row exists: the platform
\* call failed and the points are in the total.
FailedPunishmentKeepsPointsWitness ==
    /\ warnings = <<>>
    /\ punishments = <<>>
    /\ received # <<>>
    /\ TotalOf(users, "u1") >= 5

\* C18: analyzeMessage is called at most 3 times for a message; a message
\* whose every attempt failed is skipped with the users, warnings and
\* punishments rows as they were when it arrived; and the handler of every
\* message ends.
ClassifierRetriesBounded ==
    /\ [](/\ procs["p1"].attempts <= 3
          /\ (procs["p1"].pc = "done" /\ procs["p1"].retries = 0) => DB = base)
    /\ (procs["p1"].pc = "analyze") ~> (procs["p1"].pc = "done")

\* C18 witness: a message was skipped after three failed attempts, after
\* an earlier message had been recorded.
ClassifierRetriesBoundedWitness ==
    /\ procs["p1"].pc = "done"
    /\ procs["p1"].retries = 0
    /\ procs["p1"].attempts = 3
    /\ received # <<>>

\* C19: in every reachable state, also while a request to delete a level
\* and a request of the test route for that level are under way together,
\* the levelId of every warning is the id of a row of warning_levels: a
\* level that a warning references is never deleted.
WarningsReferToLevels ==
    \A i \in 1..Len(warnings) : warnings[i].levelId \in DOMAIN warningLevels

\* C19 witness: a delete that counted no warning was refused because the
\* test route handled beside it had inserted a warning of the level.
WarningsReferToLevelsWitness ==
    \E p, q \in ProcIds :
        /\ procs[p].route = "deleteLevel" /\ procs[p].status = 500
        /\ procs[q].route = "moderate" /\ procs[q].pc = "done"
        /\ procs[q].levelId = procs[p].id
        /\ \E i \in 1..Len(warnings) : warnings[i].levelId = procs[p].id

\* C20: a request that changes the points of a level leaves the points of
\* every warning as they were; an ignore request that succeeds lowers the
\* user's total by the points stored on the warning; and recalculate sets
\* the total to the sum of the points stored on the user's warnings that
\* are not ignored, whatever the points of their levels are now.
WarningPointsAreSnapshot ==
    [][/\ \A lid \in DOMAIN warningLevels, points \in SnapshotPoints :
             UpdateWarningLevel(lid, warningLevels[lid].name, points)
                => /\ Len(warnings') = Len(warnings)
                   /\ \A i \in 1..Len(warnings) :
                         warnings'[i].points = warnings[i].points
       /\ \A id \in 1..Len(warnings) :
             (IgnoreWarning(id, "u1", "appeal") /\ resp'.status = 200)
                => users'["u1"].totalPoints =
                      users["u1"].totalPoints - warnings[id].points
       /\ (Recalculate("u1") /\ "u1" \in DOMAIN users)
             => users'["u1"].totalPoints =
                   SumPoints(warnings, LiveWarnings(warnings, "u1"))]_vars

\* C20 witness: recalculate has answered for a user with a warning that is
\* not ignored and whose level has other points now than the warning
\* stores.
WarningPointsAreSnapshotWitness ==
    /\ resp = [route |-> "recalculate", status |-> 200]
    /\ "u1" \in DOMAIN users
    /\ \E i \in 1..Len(warnings) :
          /\ ~warnings[i].messageIgnored
          /\ warnings[i].points # warningLevels[warnings[i].levelId].points
    /\ users["u1"].totalPoints = SumPoints(warnings, LiveWarnings(warnings, "u1"))

\* the rows of member b: the users row, the warnings rows by id, and the
\* punishments rows in order
RowsOf(us, ws, ps, b) ==
    [user |-> IF b \in DOMAIN us THEN <<us[b]>> ELSE <<>>,
     warnings |-> {<<i, ws[i]>> : i \in {j \in 1..Len(ws) : ws[j].userId = b}},
     punishments |-> SelectSeq(ps, LAMBDA r : r.userId = b)]

\* C21: every statement of a record, ignore, recalculate or reset request
\* whose target is member a leaves the users row, the warnings rows and the
\* punishments rows of every other member b as they were, whatever the
\* request handled beside it has done so far.
OtherUsersUntouched ==
    [][\A p \in ProcIds :
          procs'[p] # procs[p]
             => \A b \in PairUsers \ {procs'[p].u} :
                   RowsOf(users', warnings', punishments', b)
                      = RowsOf(users, warnings, punishments, b)]_vars

\* C21 witness: a reset of u1 and a record for "system" were handled side
\* by side and both answered 200; u1 is cleared while "system" keeps its
\* total and its warning that is not ignored.
OtherUsersUntouchedWitness ==
    /\ procs["p1"].route = "reset" /\ procs["p1"].status = 200
    /\ procs["p2"].route = "moderate" /\ procs["p2"].status = 200
    /\ users["u1"].totalPoints = 0
    /\ \E i \in 1..Len(warnings) :
          warnings[i].userId = "u1" /\ warnings[i].ignoredBy = "system"
    /\ users["system"].totalPoints > 0
    /\ \E i \in 1..Len(warnings) :
          warnings[i].userId = "system" /\ ~warnings[i].messageIgnored

\* C22: an ignore request for a warning id that names no row, and a
\* recalculate or reset-warnings request for a user id that names no row,
\* are answered 404 and leave every users, warnings and punishments row as
\* it was.
MissingTargetIsNotFound ==
    [][/\ \A id \in 1..(MaxWarnings + 1), by \in ReviewerIds, reason \in Reasons :
             (id \notin 1..Len(warnings) /\ IgnoreWarning(id, by, reason))
                => resp'.status = 404 /\ DB' = DB
       /\ \A u \in UserIds :
             (u \notin DOMAIN users /\ Recalculate(u))
                => resp'.status = 404 /\ DB' = DB
       /\ \A u \in UserIds :
             (u \notin DOMAIN users /\ ResetWarnings(u))
                => resp'.status = 404 /\ DB' = DB]_vars

\* C22 witness: with one warning on file, an ignore request for an id
\* beyond it was answered 404.
MissingTargetIsNotFoundWitness ==
    /\ resp = [route |-> "ignore", status |-> 404]
    /\ Len(warnings) = 1
    /\ ~warnings[1].messageIgnored
    /\ users["u1"].totalPoints > 0

\* the type of the active rule with the highest threshold the total meets,
\* "none" when it meets no rule
ApplicableType(total) ==
    LET met == {r \in ActiveRules(punishmentRules) : r.pointThreshold <= total}
    IN IF met = {} THEN "none"
       ELSE (CHOOSE r \in met : r.pointThreshold = MaxThreshold(met)).type

\* the member's total after a recording of the verdict v
TotalAfter(u, v) ==
    TotalOf(users, u)
       + warningLevels[FindLevel(warningLevels, mapAnalysisToWarning(v))].points

\* C23: after every recording, through the test route or the Discord
\* handler, whose new total has a ban as the highest rule it meets, the
\* user's isBanned is true and exactly one punishments row, of type ban, has
\* been appended.
BanIsSetAndRecorded ==
    [][\A v \in Verdicts :
         (/\ ~NoLevelFor(v)
          /\ ApplicableType(TotalAfter("u1", v)) = "ban"
          /\ \/ TestModerate("u1", v)
             \/ \E oks \in [1..Cardinality(PolicyRules) -> BOOLEAN] :
                   MessageCreate("u1", v, oks))
            => /\ users'["u1"].isBanned
               /\ punishments' =
                     Append(punishments, [userId |-> "u1", type |-> "ban"])]_vars

\* C24: after every recording whose new total has a mute as the highest
\* rule it meets, a user who was muted keeps isMuted, muteExpiresAt and
\* isBanned and gets no punishments row, and a user who was not muted has
\* isMuted true, muteExpiresAt = now + duration and one new mute row.
MuteOnlyWhenNotMuted ==
    [][\A v \in Verdicts :
         (/\ ~NoLevelFor(v)
          /\ ApplicableType(TotalAfter("u1", v)) = "mute"
          /\ \/ TestModerate("u1", v)
             \/ \E oks \in [1..Cardinality(PolicyRules) -> BOOLEAN] :
                   MessageCreate("u1", v, oks))
            => IF "u1" \in DOMAIN users /\ users["u1"].isMuted
               THEN /\ users'["u1"].isMuted
                    /\ users'["u1"].muteExpiresAt = users["u1"].muteExpiresAt
                    /\ users'["u1"].isBanned = users["u1"].isBanned
                    /\ punishments' = punishments
               ELSE /\ users'["u1"].isMuted
                    /\ users'["u1"].muteExpiresAt = now + 60
                    /\ punishments' =
                          Append(punishments, [userId |-> "u1", type |-> "mute"])]_vars

\* C25: a message handled by the Discord handler appends at most one
\* punishments row, and only of the type of the highest rule the new total
\* meets: when the platform call for that rule fails, no row of a rule with
\* a lower threshold is written.
OnlyApplicableRuleExecuted ==
    [][\A v \in Verdicts, oks \in [1..Cardinality(PolicyRules) -> BOOLEAN] :
         (~NoLevelFor(v) /\ MessageCreate("u1", v, oks))
            => \/ punishments' = punishments
               \/ punishments' =
                     Append(punishments,
                            [userId |-> "u1",
                             type |-> ApplicableType(TotalAfter("u1", v))])]_vars

\* C26: the warnings update of a reset-warnings request leaves ignoredBy,
\* ignoreReason and ignoredAt of every warning that was already ignored as
\* they were.
ResetKeepsEarlierIgnores ==
    [][\A p \in ProcIds :
          RstUpdateWarnings(p)
             => \A i \in 1..Len(warnings) :
                   warnings[i].messageIgnored
                      => /\ warnings'[i].ignoredBy = warnings[i].ignoredBy
                         /\ warnings'[i].ignoreReason = warnings[i].ignoreReason
                         /\ warnings'[i].ignoredAt = warnings[i].ignoredAt]_vars

\* C27: no step removes a users row or a warnings row, and the userId,
\* levelId and points of a warnings row never change once it is inserted;
\* only messageIgnored, ignoredAt, ignoredBy and ignoreReason do.
LedgerIsAppendOnly ==
    [][/\ DOMAIN users \subseteq DOMAIN users'
       /\ Len(warnings') >= Len(warnings)
       /\ \A i \in 1..Len(warnings) :
             /\ warnings'[i].userId = warnings[i].userId
             /\ warnings'[i].levelId = warnings[i].levelId
             /\ warnings'[i].points = warnings[i].points]_vars

\* C27 witness: a reset has ignored a warning of u1 that an ignore request
\* handled beside it had ignored too; the row still has its user, level
\* and points.
LedgerIsAppendOnlyWitness ==
    /\ \E p \in ProcIds : procs[p].route = "reset" /\ procs[p].status = 200
    /\ \E p \in ProcIds : procs[p].route = "ignore" /\ procs[p].status = 200
    /\ \E i \in 1..Len(warnings) :
          /\ warnings[i].userId = "u1"
          /\ warnings[i].ignoredBy = "system"
          /\ warnings[i].points > 0
          /\ warnings[i].levelId \in DOMAIN warningLevels

\* C28: a recalculate that follows nothing but recordings through the test
\* route under a fixed policy leaves the user's totalPoints, isBanned and
\* isMuted as the recordings left them.
RecalculateAgreesWithRecording ==
    [][(Recalculate("u1") /\ "u1" \in DOMAIN users)
          => /\ users'["u1"].totalPoints = users["u1"].totalPoints
             /\ users'["u1"].isBanned = users["u1"].isBanned
             /\ users'["u1"].isMuted = users["u1"].isMuted]_vars

\* C29: at any time at most one Discord client with a MessageCreate handler
\* is logged in, also when calls of setupDiscordBot overlap, and a chat
\* message adds the points of its level to the member's total at most once.
\* Only clients that no call had destroyed before their login resolved are
\* counted.
OneClientLoggedIn ==
    /\ Cardinality({i \in 1..Len(clients) : clients[i] = "loggedIn"}) <= 1
    /\ (received # <<>> /\ \A i \in 1..Len(clients) : clients[i] # "revived")
          => TotalOf(users, "u1")
                <= warningLevels[FindLevel(warningLevels, received[1].level)].points

\* C30: a request to activate a template id that names no row is answered
\* 404 and leaves isActive of every template as it was, so that a template
\* that was active is still the active one.
ActivateMissingKeepsActive ==
    [][\A id \in 1..(MaxTemplates + 1) :
          (id \notin 1..Len(promptTemplates) /\ ActivatePromptTemplate(id))
             => /\ resp'.status = 404
                /\ promptTemplates' = promptTemplates
                /\ getActivePromptTemplate(promptTemplates')
                      = getActivePromptTemplate(promptTemplates)]_vars

====